---- MODULE Spec2Model ----
(***************************************************************************)
(* Model of the self-play opponent registry served by SelfplayAPIServer    *)
(* (src/openrl/selfplay/selfplay_api/selfplay_api.py).                     *)
(*                                                                         *)
(* Every replica of the deployment is one instance of the class with its   *)
(* own self.opponents list.  The three handlers are `async def` bodies     *)
(* without any await, so a replica's event loop runs one handler from its  *)
(* first statement to its return before it starts another one.             *)
(*                                                                         *)
(* OpponentModel, its update_skill method, the request types and the list  *)
(* construction live in base_api, which is not part of the sources at      *)
(* hand; they are modelled from the design document (RatingEngine,         *)
(* OpponentRecord) and marked so in the map of definitions.                *)
(***************************************************************************)
EXTENDS Integers, Sequences, FiniteSets, TLC

\* ------------------------------------------------------------------ bounds

\* Number of opponents the clients register in one behaviour.
MaxOpponents == 2

\* Number of rating updates the clients have applied in one behaviour.
MaxUpdates == 2

\* Number of clients; each has at most one request outstanding.
NumClients == 2

\* Number of replicas of the scaled-out deployment (SpecReplicas).
ScaledReplicas == 2
\* Opponents registered before the results of disjoint pairs are reported.
CommuteOpponents == 4

\* --------------------------------------------------------- program constants

\* @serve.deployment(route_prefix="/selfplay") sets no num_replicas: one replica.
DefaultNumReplicas == 1

\* Status of a handler that returns its dict.
HTTP_OK == 200

\* Status the ingress answers when a handler raises an exception that is no
\* HTTPException: the handlers raise none themselves and catch nothing.
HTTP_INTERNAL_ERROR == 500

\* ------------------------------------------------------------------ inputs

Clients == 1..NumClients

NoClient == 0

\* opponent_info without the key "opponent_path".
KeyMissing == "<no opponent_path key>"

\* Values of opponent_info["opponent_path"] the clients send.
Paths == {"", "ckpt_001"}

PathInputs == Paths \cup {KeyMissing}

\* opponent_id labels the clients send with add_opponent.
LabelInputs == {0, 1}

\* opponent_id / other_id values the clients send with update_skill.
IdInputs == {-1, 0, 1}
\* The ids 0..n-1 of a list of n records.
ValidIds(n) == 0..(n - 1)

A_WINS == "A_WINS"
B_WINS == "B_WINS"
DRAW == "DRAW"

Outcomes == {A_WINS, B_WINS, DRAW}

\* ------------------------------------------------------------ RatingEngine

\* Default rating of a new opponent.
prior_rating == 1000

\* Magnitude of one update: no rating moves by more than k_factor per match.
k_factor == 4

\* Rating difference that shifts the expected score by one unit of k_factor.
rating_spread == 4

Clamp(x, lo, hi) == IF x < lo THEN lo ELSE IF x > hi THEN hi ELSE x

\* Division rounding toward zero, so that the expectation is antisymmetric.
TruncDiv(x, d) == IF x >= 0 THEN x \div d ELSE 0 - ((0 - x) \div d)

\* Expected score of A against B, in units of 1/k_factor.
ExpectedScore(ra, rb) ==
    Clamp((k_factor \div 2) + TruncDiv(ra - rb, rating_spread), 0, k_factor)

\* Actual score of A, in units of 1/k_factor.
Score(result) ==
    IF result = A_WINS THEN k_factor
    ELSE IF result = DRAW THEN k_factor \div 2
    ELSE 0

\* A rule that rewards the winner and leaves the loser where it was.
RateWinnerOnly(ra, rb, result) ==
    LET delta == Score(result) - ExpectedScore(ra, rb)
    IN  IF delta >= 0 THEN <<ra + delta, rb>> ELSE <<ra, rb - delta>>
\* The pair of new ratings <<ra', rb'>>.
Rate(ra, rb, result) ==
    LET delta == Score(result) - ExpectedScore(ra, rb)
    IN  <<ra + delta, rb - delta>>

\* ----------------------------------------------------------- OpponentModel

OpponentModel(opponent_id, opponent_path) ==
    [opponent_id |-> opponent_id, opponent_path |-> opponent_path,
     rating |-> prior_rating]

\* An index that wraps around after three records, as in a ring of three:
\* the ids 0 and 3 are the same record.
PyIndexRing(n, i) == IF n = 0 THEN 0 ELSE ((i % 3) % n) + 1
\* Python's list index: 0..n-1 from the front, -1..-n from the back; the
\* result is the 1-based position, 0 stands for IndexError.
PyIndex(n, i) ==
    IF 0 <= i /\ i < n THEN i + 1
    ELSE IF i < 0 /\ 0 - i <= n THEN n + i + 1
    ELSE 0

\* self.update_skill(other, result) on the records at positions ia and ib of ops:
\* both ratings are computed from the ratings read, self's is written first
\* and other's second (the same record when ia = ib).
WriteSkill(ops, ia, ib, ra, rb, result) ==
    LET new == Rate(ra, rb, result)
        one == [ops EXCEPT ![ia].rating = new[1]]
    IN  [one EXCEPT ![ib].rating = new[2]]

\* ------------------------------------------------------------------- state

VARIABLES
    replicas,   \* the replicas of the deployment that are running
    workload,   \* what the clients send: the labels and paths of add_opponent
    opponents,  \* opponents[r]: self.opponents of the instance in replica r
    running,    \* running[r]: the client whose handler replica r executes
    req,        \* req[c]: the request of client c while it is in flight
    last,       \* the request answered most recently, with its response
    updates,    \* number of update_skill requests that wrote ratings
    replay      \* replay[r]: the mutations committed at r, applied one by one

vars == <<replicas, workload, opponents, running, req, last, updates, replay>>

\* A request in flight: its route and replica (kind, rep); for an update_skill
\* in progress its body (opponent_id, other_id, result) and what it has read
\* (ia, ib, ra, rb); waited tells that another update_skill wrote ratings at
\* the same replica while this one was waiting for its handler; for a
\* get_opponent in progress the positions its reads took their fields from.
IdleReq ==
    [kind |-> "none", pc |-> "idle", rep |-> 0,
     opponent_id |-> 0, other_id |-> 0, result |-> "",
     ia |-> 0, ib |-> 0, ra |-> 0, rb |-> 0, waited |-> FALSE,
     reads |-> << >>]

\* An answered request: its body, the positions whose ratings it wrote (ia,
\* ib), its response (status, exc, r_id, r_path), what its handler found when
\* it started (len0: the length of its replica's list, tot0: the registrations
\* completed on all replicas), and shared: it is a match between two opponents,
\* one of whom played in the match of the request answered just before it,
\* which was in flight at the same time.
NoResponse ==
    [kind |-> "none", rep |-> 0,
     opponent_id |-> 0, opponent_path |-> "", other_id |-> 0, result |-> "",
     ia |-> 0, ib |-> 0,
     status |-> 0, exc |-> "", r_id |-> 0, r_path |-> "",
     len0 |-> 0, tot0 |-> 0, shared |-> FALSE, reads |-> << >>]

RECURSIVE SumLen(_, _)
SumLen(ops, rs) ==
    IF rs = {} THEN 0
    ELSE LET r == CHOOSE x \in rs : TRUE
         IN  Len(ops[r]) + SumLen(ops, rs \ {r})

\* Registrations that have succeeded so far, over all replicas.
Registered == SumLen(opponents, replicas)

\* BaseSelfplayAPIServer starts every instance with an empty list.
InitWith(n, labels, paths, ids, outcomes) ==
    /\ replicas = 1..n
    /\ workload = [labels |-> labels, paths |-> paths,
                   ids |-> ids, outcomes |-> outcomes]
    /\ opponents = [r \in 1..n |-> << >>]
    /\ running = [r \in 1..n |-> NoClient]
    /\ req = [c \in Clients |-> IdleReq]
    /\ last = NoResponse
    /\ updates = 0
    /\ replay = [r \in 1..n |-> << >>]

Init == InitWith(DefaultNumReplicas, LabelInputs, PathInputs, IdInputs, Outcomes)

\* Clients that register every opponent under the same label and path.
InitSkill == InitWith(DefaultNumReplicas, {0}, {"ckpt_001"}, IdInputs, Outcomes)

\* Clients that register under every label, with one path, and report only
\* wins of opponent_id, between the first record and the last.
InitRegister ==
    InitWith(DefaultNumReplicas, LabelInputs, {"ckpt_001"}, {-1, 0}, {A_WINS})

InitReplicas == InitWith(ScaledReplicas, {0}, {"ckpt_001"}, IdInputs, Outcomes)

\* -------------------------------------------------------------- event loop

\* The event loop of a handler that awaited between its reads and its
\* writes: the replica would start other handlers in the meantime.
EventLoopFreeAtAwait(r) == TRUE

\* A handler body has no await: the replica starts the next handler only
\* when none is in progress.
EventLoopFree(r) == running[r] = NoClient

\* ------------------------------------------------------------------ clients

\* Requests of the given route that are waiting for a handler or in one.
InFlight(kind) ==
    Cardinality({c \in Clients : req[c].kind = kind /\ req[c].pc # "idle"})

\* A request arrives at replica r on the first free connection c; the handler
\* reads its body when it runs.
Arrive(c, r, kind) ==
    /\ req[c].pc = "idle"
    /\ \A d \in Clients : d < c => req[d].pc # "idle"
    /\ req' = [req EXCEPT ![c] = [IdleReq EXCEPT !.kind = kind,
                                                 !.pc = "received", !.rep = r]]
    /\ UNCHANGED <<replicas, workload, opponents, running, last, updates, replay>>

\* POST /add_opponent
PostAddOpponent(c) ==
    /\ Registered + InFlight("add_opponent") < MaxOpponents
    /\ \E r \in replicas : Arrive(c, r, "add_opponent")

\* GET /get_opponent
GetGetOpponent(c) ==
    \E r \in replicas : Arrive(c, r, "get_opponent")

\* POST /update_skill
PostUpdateSkill(c) ==
    /\ updates + InFlight("update_skill") < MaxUpdates
    /\ \E r \in replicas : Arrive(c, r, "update_skill")

\* ---------------------------------------------------------------- responses

\* The request of client c as its handler at replica r starts on it.
Started(c, r) ==
    [NoResponse EXCEPT !.kind = req[c].kind, !.rep = r,
                       !.len0 = Len(opponents[r]), !.tot0 = Registered]

\* The handler returns its dict.
Returned(q, id, path) ==
    [q EXCEPT !.status = HTTP_OK, !.r_id = id, !.r_path = path]

\* The handler raises; nothing in it catches the exception.
Raised(q, exc) ==
    [q EXCEPT !.status = HTTP_INTERNAL_ERROR, !.exc = exc]

\* The response leaves on the connection of client c, which is free again.
Responded(c) == [req EXCEPT ![c] = IdleReq]

\* ------------------------------------------------- sequential registry steps

\* list.insert(0, rec): the record goes in front of the others.
ListInsertFirst(ops, rec) == <<rec>> \o ops
\* self.opponents.append(rec)
ListAppend(ops, rec) == Append(ops, rec)

SeqAddOpponent(ops, id, path) ==
    IF path = KeyMissing THEN ops ELSE Append(ops, OpponentModel(id, path))

SeqUpdateSkill(ops, a, b, result) ==
    LET ia == PyIndex(Len(ops), a)
        ib == PyIndex(Len(ops), b)
    IN  IF ia = 0 \/ ib = 0 THEN ops
        ELSE WriteSkill(ops, ia, ib, ops[ia].rating, ops[ib].rating, result)

\* ----------------------------------------------------------------- handlers

\* add_opponent: opponent_info["opponent_path"] raises KeyError before the
\* append when the key is missing; otherwise the record is appended with
\* the opponent_id of the request and the message names both.
add_opponent(c) ==
    /\ req[c].pc = "received" /\ req[c].kind = "add_opponent"
    /\ EventLoopFree(req[c].rep)
    /\ \E id \in workload.labels, p \in workload.paths :
        LET r == req[c].rep
            q == [Started(c, r) EXCEPT !.opponent_id = id, !.opponent_path = p]
        IN  IF p = KeyMissing
            THEN /\ last' = Raised(q, "KeyError")
                 /\ UNCHANGED <<opponents, replay>>
            ELSE /\ opponents' = [opponents EXCEPT ![r] =
                        ListAppend(@, OpponentModel(id, p))]
                 /\ replay' = [replay EXCEPT ![r] = SeqAddOpponent(@, id, p)]
                 /\ last' = Returned(q, id, p)
    /\ req' = Responded(c)
    /\ UNCHANGED <<replicas, workload, running, updates>>

\* get_opponent: self.opponents[-1] raises IndexError on the empty list;
\* otherwise the fields of the last record are returned (opponent_type,
\* which no request sets, is left out of the records).
get_opponent(c) ==
    LET r == req[c].rep
        q == Started(c, r)
        end == PyIndex(Len(opponents[r]), -1)
    IN  /\ req[c].pc = "received" /\ req[c].kind = "get_opponent"
        /\ EventLoopFree(r)
        /\ IF end = 0
           THEN last' = Raised(q, "IndexError")
           ELSE last' = [Returned(q, opponents[r][end].opponent_id,
                                  opponents[r][end].opponent_path)
                         EXCEPT !.reads = <<end, end, end>>]
        /\ req' = Responded(c)
        /\ UNCHANGED <<replicas, workload, opponents, running, updates, replay>>

\* get_opponent read by read.  Each of the three entries of the dict is
\* its own self.opponents[-1] lookup; the handler holds the event loop from
\* the first to the return.

\* "opponent_id": self.opponents[-1].opponent_id
get_opponent_id(c) ==
    LET r == req[c].rep
        end == PyIndex(Len(opponents[r]), -1)
    IN  /\ req[c].pc = "received" /\ req[c].kind = "get_opponent"
        /\ EventLoopFree(r)
        /\ IF end = 0
           THEN /\ last' = Raised(Started(c, r), "IndexError")
                /\ req' = Responded(c)
                /\ UNCHANGED running
           ELSE /\ req' = [req EXCEPT ![c].pc = "running",
                                      ![c].reads = <<end>>]
                /\ running' = [running EXCEPT ![r] = c]
                /\ UNCHANGED last
        /\ UNCHANGED <<replicas, workload, opponents, updates, replay>>

\* "opponent_path": self.opponents[-1].opponent_path
get_opponent_path(c) ==
    LET r == req[c].rep
        end == PyIndex(Len(opponents[r]), -1)
    IN  /\ req[c].pc = "running" /\ req[c].kind = "get_opponent"
        /\ Len(req[c].reads) = 1
        /\ req' = [req EXCEPT ![c].reads = Append(@, end)]
        /\ UNCHANGED <<replicas, workload, opponents, running, last,
                       updates, replay>>

\* "opponent_type": self.opponents[-1].opponent_type, and the return.  The
\* response is marked shared when an add_opponent for the same replica was
\* waiting for its handler during this read.
get_opponent_type(c) ==
    LET r == req[c].rep
        end == PyIndex(Len(opponents[r]), -1)
        reads == Append(req[c].reads, end)
    IN  /\ req[c].pc = "running" /\ req[c].kind = "get_opponent"
        /\ Len(req[c].reads) = 2
        /\ last' = [Returned(Started(c, r),
                             opponents[r][reads[1]].opponent_id,
                             opponents[r][reads[2]].opponent_path)
                       EXCEPT !.reads = reads,
                              !.shared = \E d \in Clients :
                                            /\ req[d].kind = "add_opponent"
                                            /\ req[d].pc = "received"
                                            /\ req[d].rep = r]
        /\ req' = Responded(c)
        /\ running' = [running EXCEPT ![r] = NoClient]
        /\ UNCHANGED <<replicas, workload, opponents, updates, replay>>

\* update_skill, up to the reads: both list lookups, then the two ratings
\* the update is computed from.  A lookup out of range raises IndexError.
update_skill_read(c) ==
    /\ req[c].pc = "received" /\ req[c].kind = "update_skill"
    /\ EventLoopFree(req[c].rep)
    /\ \E a \in workload.ids, b \in workload.ids, res \in workload.outcomes :
        LET r == req[c].rep
            ia == PyIndex(Len(opponents[r]), a)
            ib == PyIndex(Len(opponents[r]), b)
        IN  IF ia = 0 \/ ib = 0
            THEN /\ last' = Raised([Started(c, r) EXCEPT !.opponent_id = a,
                                       !.other_id = b, !.result = res],
                                   "IndexError")
                 /\ req' = Responded(c)
                 /\ UNCHANGED running
            ELSE /\ req' = [req EXCEPT ![c] =
                        [@ EXCEPT !.pc = "running", !.opponent_id = a,
                                  !.other_id = b, !.result = res,
                                  !.ia = ia, !.ib = ib,
                                  !.ra = opponents[r][ia].rating,
                                  !.rb = opponents[r][ib].rating]]
                 /\ running' = [running EXCEPT ![r] = c]
                 /\ UNCHANGED last
    /\ UNCHANGED <<replicas, workload, opponents, updates, replay>>

\* update_skill, from the writes: both ratings are stored and the handler
\* returns {"msg": "Skill updated."}.
update_skill_write(c) ==
    LET q == req[c]
        r == q.rep
    IN  /\ q.pc = "running" /\ q.kind = "update_skill"
        /\ opponents' = [opponents EXCEPT ![r] =
               WriteSkill(@, q.ia, q.ib, q.ra, q.rb, q.result)]
        /\ replay' = [replay EXCEPT ![r] =
               SeqUpdateSkill(@, q.opponent_id, q.other_id, q.result)]
        /\ last' = Returned([Started(c, r) EXCEPT
                                !.opponent_id = q.opponent_id,
                                !.other_id = q.other_id, !.result = q.result,
                                !.ia = q.ia, !.ib = q.ib,
                                !.shared = /\ q.waited
                                           /\ last.kind = "update_skill"
                                           /\ last.status = HTTP_OK
                                           /\ last.rep = r
                                           /\ last.ia # last.ib
                                           /\ q.ia # q.ib
                                           /\ {last.ia, last.ib} \cap {q.ia, q.ib} # {}],
                            0, "")
        /\ req' = [d \in Clients |->
               IF d = c THEN IdleReq
               ELSE IF /\ req[d].kind = "update_skill" /\ req[d].rep = r
                       /\ req[d].pc \in {"received", "running"}
                    THEN [req[d] EXCEPT !.waited = TRUE]
                    ELSE req[d]]
        /\ running' = [running EXCEPT ![r] = NoClient]
        /\ updates' = updates + 1
        /\ UNCHANGED <<replicas, workload>>

\* ------------------------------------------------------------ specifications

Next ==
    \E c \in Clients :
        \/ PostAddOpponent(c)
        \/ GetGetOpponent(c)
        \/ PostUpdateSkill(c)
        \/ add_opponent(c)
        \/ get_opponent(c)
        \/ update_skill_read(c)
        \/ update_skill_write(c)

\* The deployment as declared: one replica.
Spec == Init /\ [][Next]_vars

\* One replica, clients that differ only in the rating updates they send.
SpecSkill == InitSkill /\ [][Next]_vars

\* The deployment scaled out to ScaledReplicas replicas, the same clients.
SpecReplicas == InitReplicas /\ [][Next]_vars

\* One replica, clients that register under every label and report wins of
\* the first opponent and of the last one.
SpecRegister == InitRegister /\ [][Next]_vars

\* The event loop of a replica runs every handler that is ready: a request
\* that has been received is not left aside for ever, and a handler that
\* has started runs on to its return.
Fairness ==
    \A c \in Clients :
        /\ WF_vars(add_opponent(c))
        /\ WF_vars(get_opponent(c))
        /\ WF_vars(update_skill_read(c))
        /\ WF_vars(update_skill_write(c))

\* One replica whose event loop keeps running, the clients of SpecSkill.
SpecFair == InitSkill /\ [][Next]_vars /\ Fairness

\* Clients that register under every label and read the latest opponent.
InitSelect ==
    InitWith(DefaultNumReplicas, LabelInputs, {"ckpt_001"}, {0}, {A_WINS})

\* The clients register opponents and ask for the latest one, whose
\* handler is followed read by read.
NextSelect ==
    \E c \in Clients :
        \/ PostAddOpponent(c)
        \/ GetGetOpponent(c)
        \/ add_opponent(c)
        \/ get_opponent_id(c)
        \/ get_opponent_path(c)
        \/ get_opponent_type(c)

SpecSelect == InitSelect /\ [][NextSelect]_vars

\* The population that CommuteOpponents registrations under one label and
\* path leave behind, every rating at the prior.
InitCommute ==
    /\ replicas = 1..DefaultNumReplicas
    /\ workload = [labels |-> {0}, paths |-> {"ckpt_001"},
                   ids |-> ValidIds(CommuteOpponents), outcomes |-> {A_WINS}]
    /\ opponents = [r \in 1..DefaultNumReplicas |->
                        [i \in 1..CommuteOpponents |->
                            OpponentModel(0, "ckpt_001")]]
    /\ running = [r \in 1..DefaultNumReplicas |-> NoClient]
    /\ req = [c \in Clients |-> IdleReq]
    /\ last = NoResponse
    /\ updates = 0
    /\ replay = opponents

\* The clients only report results.
NextCommute ==
    \E c \in Clients :
        \/ PostUpdateSkill(c)
        \/ update_skill_read(c)
        \/ update_skill_write(c)

\* One replica with CommuteOpponents opponents, clients that report wins of
\* opponent_id between them.
SpecCommute == InitCommute /\ [][NextCommute]_vars

\* ------------------------------------------------------------------- claims


Answered(kind) == last.kind = kind

\* C1: the i-th successful registration is assigned the id i-1: the
\* confirmation names it and the new record stores it, whatever opponent_id
\* label the client sent.
C1_IdsIssuedDenseFromZero ==
    (Answered("add_opponent") /\ last.status = HTTP_OK) =>
        /\ last.r_id = last.tot0
        /\ opponents[last.rep][last.len0 + 1].opponent_id = last.tot0

\* C2: no update is lost.  The ratings (and the whole list) of a replica are
\* what the mutations committed there give when they are applied one after
\* the other, each on the result of the one before, in the order of their
\* commits.
C2_NoLostUpdate ==
    \A r \in replicas : opponents[r] = replay[r]

\* C2, its case: an update_skill between two opponents has written the rating
\* of an opponent that another update_skill between two opponents, in flight
\* at the same time, has written just before.
C2_TwoOverlappingUpdatesApplied ==
    /\ Answered("update_skill") /\ last.status = HTTP_OK
    /\ last.shared
    /\ updates >= 2
    /\ opponents[last.rep][last.ia].rating # prior_rating

\* C3: get_opponent on a registry without opponents is answered 404; once
\* a registration has succeeded it is answered with a record.
C3_SelectOnEmptyIsNotFound ==
    Answered("get_opponent") =>
        IF last.tot0 = 0 THEN last.status = 404 ELSE last.status = HTTP_OK

\* C4: after k+1 successful registrations get_opponent returns opponent_id k
\* and the path of the last registration.
C4_SelectReturnsMostRecent ==
    (Answered("get_opponent") /\ last.tot0 > 0) =>
        /\ last.status = HTTP_OK
        /\ last.r_id = last.tot0 - 1
        /\ last.r_path = replay[last.rep][last.tot0].opponent_path

\* C5: the record at position i has opponent_id i and the path it was
\* registered with, no two records share an id, and an update_skill that
\* names an id writes the rating of the record with that opponent_id.
C5_IdsResolveToTheirRecords ==
    /\ \A r \in replicas : \A i \in 1..Len(opponents[r]) :
          /\ opponents[r][i].opponent_id = i - 1
          /\ opponents[r][i].opponent_path = replay[r][i].opponent_path
          /\ \A j \in 1..Len(opponents[r]) :
                j # i => opponents[r][j].opponent_id # opponents[r][i].opponent_id
    /\ (Answered("update_skill") /\ last.status = HTTP_OK) =>
          /\ opponents[last.rep][last.ia].opponent_id = last.opponent_id
          /\ opponents[last.rep][last.ib].opponent_id = last.other_id

\* C6: update_skill with opponent_id or other_id outside 0..n-1 is answered
\* 404 (so it writes no rating and resolves the id to no record).
C6_UnknownIdIsNotFound ==
    (/\ Answered("update_skill")
     /\ \/ last.opponent_id \notin ValidIds(last.len0)
        \/ last.other_id \notin ValidIds(last.len0))
        => last.status = 404

\* C7: update_skill with opponent_id = other_id, naming an existing record,
\* is answered 400.
C7_EqualIdsAreInvalidArgument ==
    (/\ Answered("update_skill")
     /\ last.opponent_id = last.other_id
     /\ last.opponent_id \in ValidIds(last.len0))
        => last.status = 400

\* C8: add_opponent without opponent_path, or with an empty one, is answered
\* 400 and the list is as long as before.
C8_MissingPathIsInvalidArgument ==
    (/\ Answered("add_opponent")
     /\ last.opponent_path \in {KeyMissing, ""})
        => /\ last.status = 400
           /\ Len(opponents[last.rep]) = last.len0

\* C9: the replica that serves a get_opponent or an update_skill holds every
\* registration completed so far, through whichever replica it was made.
C9_ReplicasShareOneRegistry ==
    (Answered("get_opponent") \/ Answered("update_skill")) =>
        last.len0 = last.tot0

\* The requests the design rejects: add_opponent without a path or with an
\* empty one, get_opponent on an empty list, update_skill with an unknown
\* id or with equal ids.
Rejected(q) ==
    \/ q.kind = "add_opponent" /\ q.opponent_path \in {KeyMissing, ""}
    \/ q.kind = "get_opponent" /\ q.len0 = 0
    \/ /\ q.kind = "update_skill"
       /\ \/ q.opponent_id \notin ValidIds(q.len0)
          \/ q.other_id \notin ValidIds(q.len0)
          \/ q.opponent_id = q.other_id

\* Client c is answered in this step.
AnsweredNow(c) == req[c].pc \in {"received", "running"} /\ req'[c].pc = "idle"

\* C10: the step that answers a request the design rejects changes no list
\* and no rating.
C10_RejectedRequestChangesNothing ==
    [][\A c \in Clients :
          (AnsweredNow(c) /\ Rejected(last')) => opponents' = opponents]_vars

\* C11: a successful add_opponent makes the list one record longer, puts the
\* record of the request (its opponent_id and opponent_path, the prior
\* rating) at the end, and leaves the records that were there, with their
\* ratings, where they were; the lists of the other replicas do not change.
C11_RegisterAppendsOneRecord ==
    [][\A c \in Clients :
        (/\ AnsweredNow(c) /\ req[c].kind = "add_opponent"
         /\ last'.status = HTTP_OK)
        => LET r == req[c].rep
               n == Len(opponents[r])
           IN  /\ Len(opponents'[r]) = n + 1
               /\ SubSeq(opponents'[r], 1, n) = opponents[r]
               /\ opponents'[r][n + 1].opponent_id = last'.opponent_id
               /\ opponents'[r][n + 1].opponent_path = last'.opponent_path
               /\ opponents'[r][n + 1].rating = prior_rating
               /\ \A o \in replicas \ {r} : opponents'[o] = opponents[o]]_vars

\* An opponent is registered after another one whose rating has moved and
\* whose label differs from its own.
C11_RegisteredBehindRatedRecord ==
    /\ Answered("add_opponent") /\ last.status = HTTP_OK
    /\ last.len0 >= 1
    /\ Len(opponents[last.rep]) = last.len0 + 1
    /\ opponents[last.rep][1].rating # prior_rating
    /\ opponents[last.rep][1].opponent_id # last.opponent_id

\* C12: the rating of the opponent with id i changes only in the step that
\* answers a successful update_skill whose opponent_id or other_id is i; no
\* other step, and no update_skill that names two other ids, changes it.
C12_RatingChangesOnlyWhenNamed ==
    [][\A r \in replicas : \A i \in ValidIds(Len(opponents[r])) :
        opponents'[r][i + 1].rating # opponents[r][i + 1].rating
        => \E c \in Clients :
               /\ AnsweredNow(c) /\ req[c].kind = "update_skill"
               /\ req[c].rep = r
               /\ last'.status = HTTP_OK
               /\ i \in {last'.opponent_id, last'.other_id}]_vars

\* A call of update_skill on two different opponents of the population ops.
PairCalls(ops) ==
    {call \in ValidIds(Len(ops)) \X ValidIds(Len(ops)) \X Outcomes :
        call[1] # call[2]}

\* C13: an update_skill call on one pair of opponents commutes with every
\* call on a pair disjoint from it: when the handler has applied the call
\* (a, b, result), applying a call on two other opponents after it gives the
\* population that the same call (a, b, result) gives after that other
\* call. Overlapping handlers leave what their calls leave one after the
\* other in the order of their answers, so every interleaving and every
\* order of calls on pairwise disjoint pairs ends in the same population.
C13_DisjointPairsCommute ==
    [][/\ \A r \in replicas : opponents'[r] = replay'[r]
       /\ \A c \in Clients :
        (/\ AnsweredNow(c) /\ req[c].kind = "update_skill"
         /\ last'.status = HTTP_OK
         /\ req[c].opponent_id # req[c].other_id)
        => LET r == req[c].rep
               a == req[c].opponent_id
               b == req[c].other_id
           IN  \A other \in PairCalls(opponents[r]) :
                   {other[1], other[2]} \cap {a, b} = {}
                   => \A first \in {SeqUpdateSkill(opponents[r], other[1],
                                                    other[2], other[3])} :
                          SeqUpdateSkill(opponents'[r],
                                         other[1], other[2], other[3])
                          = SeqUpdateSkill(first, a, b, req[c].result)]_vars

\* Two results on disjoint pairs have been applied: the ratings of four
\* opponents have moved in two calls.
C13_TwoDisjointPairsApplied ==
    /\ updates = 2
    /\ Answered("update_skill") /\ last.status = HTTP_OK
    /\ last.ia # last.ib
    /\ Cardinality({i \in 1..Len(opponents[last.rep]) :
           opponents[last.rep][i].rating # prior_rating}) = 4

\* C14: every request that has been received is answered, whatever the
\* other requests do, and the answer it ends with is its result (200) or a
\* structured error of the interface (400 invalid argument, 404 not found).
C14_EveryRequestIsAnswered ==
    /\ \A c \in Clients : (req[c].pc = "received") ~> (req[c].pc = "idle")
    /\ [][\A c \in Clients :
            AnsweredNow(c) => last'.status \in {HTTP_OK, 400, 404}]_vars

\* C15: when update_skill names two different records whose ratings are
\* equal and the result is a win of one of them, the call raises the
\* winner's rating and lowers the loser's by the same amount: the sum of the
\* two ratings is what it was.
C15_EqualRatingsWinIsZeroSum ==
    [][\A c \in Clients :
        (/\ AnsweredNow(c) /\ req[c].kind = "update_skill"
         /\ last'.status = HTTP_OK
         /\ req[c].ia # req[c].ib
         /\ req[c].result \in {A_WINS, B_WINS}
         /\ opponents[req[c].rep][req[c].ia].rating
                = opponents[req[c].rep][req[c].ib].rating)
        => LET r == req[c].rep
               w == IF req[c].result = A_WINS THEN req[c].ia ELSE req[c].ib
               l == IF req[c].result = A_WINS THEN req[c].ib ELSE req[c].ia
               gain == opponents'[r][w].rating - opponents[r][w].rating
               loss == opponents[r][l].rating - opponents'[r][l].rating
           IN  /\ gain > 0
               /\ loss = gain
               /\ opponents'[r][w].rating + opponents'[r][l].rating
                      = opponents[r][w].rating + opponents[r][l].rating]_vars

\* The first result reported is a win between two different opponents, both
\* at the prior rating until then; the winner is above the prior now.
C15_FirstWinBetweenEquals ==
    /\ updates = 1
    /\ Answered("update_skill") /\ last.status = HTTP_OK
    /\ last.ia # last.ib
    /\ last.result = A_WINS
    /\ opponents[last.rep][last.ia].rating > prior_rating

\* C16: the three fields of a get_opponent response are read from one
\* record: no add_opponent appends between the handler's three reads of
\* the last element, also when its request is in flight during them.
C16_ResponseFieldsFromOneRecord ==
    (Answered("get_opponent") /\ last.status = HTTP_OK)
    => /\ Len(last.reads) = 3
       /\ last.reads[1] = last.reads[2]
       /\ last.reads[2] = last.reads[3]

\* A get_opponent has been answered from the last record while an
\* add_opponent that arrived before its return was waiting for its handler.
C16_AnsweredWithRegistrationWaiting ==
    /\ Answered("get_opponent") /\ last.status = HTTP_OK
    /\ last.shared
    /\ Len(last.reads) = 3

====
